---- MODULE Spec2Model ----
(***************************************************************************)
(* A model of the chord scorer (chord.py, config.py, utils.py) and of the  *)
(* segment clusterer (cluster.py).                                         *)
(*                                                                         *)
(* Weights are floats in the source.  They are modelled as exact rationals *)
(* (an integer numerator over a named power-of-ten denominator), so every  *)
(* sum and share below is the real-number value the floats approximate.    *)
(***************************************************************************)
EXTENDS Integers, Sequences, FiniteSets, TLC

VARIABLES
    pc,             \* the control point of the running operation
    \* cluster.py: cluster(music, can_merge)
    music,          \* the note table (a sequence of rows), 0-based in the source
    data,           \* cluster: data
    new_data,       \* cluster: new_data
    step_distance,  \* cluster: step_distance
    pos,            \* cluster: position of the running for loop (0-based)
    answers,        \* the values can_merge has returned so far
    \* cluster.py: Part.__sub__(self, other)
    self_part,
    other_part,
    distance,       \* its outcome: [raised, value]
    \* chord.py: Chord.init(), Chord.__init__(name, order)
    chord_table,    \* config.CHORDS, in the order of its items
    chord_i,        \* position of the loop over the chord table (1-based)
    deduplicate_set,\* Chord.deduplicate_set
    chords,         \* Chord.chords, in insertion order
    trans,          \* self.trans of the chord under construction
    order,          \* order, in Chord.__init__
    idx,            \* idx, in Chord.__init__
    \* chord.py: Measure.init(), get_weight(measure_part)
    measures,       \* Measure.measures, in insertion order
    measure_part,   \* get_weight's argument: [measure, notes]
    used_weight,    \* get_weight: used_weight
    note_weight,    \* get_weight: note_weight; the argument of the scorer
    tick,           \* get_weight: position of the loop over zip(...) (0-based)
    \* chord.py: sort_chord_transpositions(note_weight)
    min_step,       \* min_step
    max_step,       \* max_step
    result,         \* result
    chord_k,        \* position of the loop over Chord.chords.items() (1-based)
    \* cluster.py: the default can_merge of the main block
    meter,          \* music[['beats', 'beat_type']], one entry per note
    part_distances  \* the values of part_distance in the calls of can_merge so far

clusterVars == <<music, data, new_data, step_distance, pos, answers>>
subVars == <<self_part, other_part, distance>>

catalogVars == <<chord_table, chord_i, deduplicate_set, chords, trans, order, idx>>

weightVars == <<measures, measure_part, used_weight, note_weight, tick>>

scoreVars == <<min_step, max_step, result, chord_k>>

defaultVars == <<meter, part_distances>>

vars == <<pc, clusterVars, subVars, catalogVars, weightVars, scoreVars, defaultVars>>

\* what each operation leaves alone
notCluster == <<subVars, catalogVars, weightVars, scoreVars, defaultVars>>
notSub == <<data, new_data, step_distance, pos, answers, catalogVars, weightVars, scoreVars, defaultVars>>
notCatalog == <<clusterVars, subVars, weightVars, scoreVars, defaultVars>>
notWeight == <<clusterVars, subVars, catalogVars, scoreVars, defaultVars>>
notScore == <<clusterVars, subVars, catalogVars, weightVars, defaultVars>>

\* the value of a variable the running operation does not use
None == <<>>

ClusterIdle ==
    /\ data = None
    /\ new_data = None
    /\ step_distance = 0
    /\ pos = 0
    /\ answers = {}

DefaultIdle == meter = None /\ part_distances = {}

SubIdle == self_part = None /\ other_part = None /\ distance = None

ScoreIdle ==
    /\ min_step = 0
    /\ max_step = 0
    /\ result = None
    /\ chord_k = 0

WeightIdle ==
    /\ measures = None
    /\ measure_part = None
    /\ used_weight = None
    /\ note_weight = None
    /\ tick = 0

CatalogIdle ==
    /\ chord_table = None
    /\ chord_i = 0
    /\ deduplicate_set = {}
    /\ chords = None
    /\ trans = None
    /\ order = None
    /\ idx = 0

-----------------------------------------------------------------------------
(* Bounds and input sets *)

MaxNotes == 4
MaxSubNotes == 3

\* config.py
BEAT_LCM == 32

REST == -1

StepIds == {REST, 1}
Deltas == {-1, 0, 1, BEAT_LCM, BEAT_LCM + 1}
Durations == {1, 3}

Last(s) == s[Len(s)]
Front(s) == SubSeq(s, 1, Len(s) - 1)
Max(a, b) == IF a >= b THEN a ELSE b

Row(step, start, dur) ==
    [step_id |-> step, start_time |-> start, end_time |-> start + dur]

\* a note table is drawn as one choice per note: the pitch, the start tick
\* relative to the note before (the first note starts at tick MaxNotes), the
\* duration
Choices == [step_id : StepIds, delta : Deltas, duration : Durations]

RECURSIVE MusicOf(_, _, _)
MusicOf(c, k, acc) ==
    IF k > Len(c) THEN acc
    ELSE MusicOf(c, k + 1,
                 Append(acc, Row(c[k].step_id,
                                 IF k = 1 THEN MaxNotes
                                 ELSE acc[k - 1].start_time + c[k].delta,
                                 c[k].duration)))

\* music is some table of lo .. hi notes
DrawMusic(lo, hi) ==
    \E n \in lo..hi : \E c \in [1..n -> Choices] :
        /\ n > 0 => c[1].delta = 0
        /\ music = MusicOf(c, 1, <<>>)

-----------------------------------------------------------------------------
(* cluster.py: Part *)

NewPart(i) == [start_idx |-> i, length |-> 1, end_time |-> music[i + 1].end_time]

end_idx(p) == p.start_idx + p.length
first(p) == music[p.start_idx + 1]
last(p) == music[end_idx(p)]
first_start_time(p) == first(p).start_time
last_start_time(p) == last(p).start_time
is_rest(p) == first(p).step_id = REST

SubStrict(self, other) ==
    IF first_start_time(self) > last_start_time(other)
    THEN [raised |-> FALSE, value |-> first_start_time(self) - last_start_time(other)]
    ELSE IF last_start_time(self) <= first_start_time(other)
    THEN [raised |-> FALSE, value |-> last_start_time(self) - first_start_time(other)]
    ELSE [raised |-> TRUE, value |-> 0]

\* Part.__sub__: a number, or the exception 'part overlapped'
Sub(self, other) ==
    IF first_start_time(self) >= last_start_time(other)
    THEN [raised |-> FALSE, value |-> first_start_time(self) - last_start_time(other)]
    ELSE IF last_start_time(self) <= first_start_time(other)
    THEN [raised |-> FALSE, value |-> last_start_time(self) - first_start_time(other)]
    ELSE [raised |-> TRUE, value |-> 0]

\* Part.__add__: the assertion 'only sequential parts can be added'
AddOk(self, other) == end_idx(self) = other.start_idx

Add(self, other) ==
    [start_idx |-> self.start_idx,
     length |-> self.length + other.length,
     end_time |-> Max(self.end_time, other.end_time)]

-----------------------------------------------------------------------------
(* cluster.py: cluster, phase 0 *)

Fuses(d, part) ==
    /\ d # <<>>
    /\ \/ first_start_time(part) = last_start_time(Last(d))
       \/ is_rest(part) /\ is_rest(Last(d))

\* one iteration of the construction loop: [ok, data]
BuildOne(d, i) ==
    LET part == NewPart(i) IN
    IF Fuses(d, part)
    THEN [ok |-> AddOk(Last(d), part),
          data |-> [d EXCEPT ![Len(d)] = Add(@, part)]]
    ELSE [ok |-> TRUE, data |-> Append(d, part)]

RECURSIVE Phase0(_)
Phase0(n) == IF n = 0 THEN <<>> ELSE BuildOne(Phase0(n - 1), n - 1).data

(* cluster.py: cluster, one pass *)

\* part.is_rest or (len(new_data) <= 1 and (not new_data or new_data[-1].is_rest))
NoPartner(nd, part) ==
    IF is_rest(part) THEN TRUE
    ELSE IF Len(nd) > 1 THEN FALSE
    ELSE IF nd = <<>> THEN TRUE
    ELSE is_rest(Last(nd))

LastMeaningfulIdxLast(nd) == Len(nd)

\* -2 or -1 in the source, as a 1-based position here
LastMeaningfulIdx(nd) == IF is_rest(Last(nd)) THEN Len(nd) - 1 ELSE Len(nd)

OverlapsNever(lmp, part) == FALSE

\* last_meaningful_part.end_time > part.first_start_time
Overlaps(lmp, part) == lmp.end_time > first_start_time(part)

ShouldMergeIgnoringAnswer(lmp, part, answer) == TRUE

ShouldMergeBoth(lmp, part, answer) == Overlaps(lmp, part) /\ answer

\* last_meaningful_part.end_time > part.first_start_time or can_merge(...)
ShouldMerge(lmp, part, answer) == Overlaps(lmp, part) \/ answer

\* the merge branch: [ok, new_data]; ok is the conjunction of the assertions
MergeNoAbsorb(nd, lmi, part) ==
    LET nd1 == IF lmi = Len(nd) - 1 THEN Front(nd) ELSE nd
    IN  [ok |-> AddOk(Last(nd1), part),
         new_data |-> [nd1 EXCEPT ![Len(nd1)] = Add(@, part)]]

Merge(nd, lmi, part) ==
    LET absorb == lmi = Len(nd) - 1
        nd1 == IF absorb THEN Front(nd) ELSE nd
        part1 == IF absorb THEN Add(Last(nd), part) ELSE part
    IN  [ok |-> (absorb => AddOk(Last(nd), part)) /\ AddOk(Last(nd1), part1),
         new_data |-> [nd1 EXCEPT ![Len(nd1)] = Add(@, part1)]]

-----------------------------------------------------------------------------
(* Actions of cluster *)

Init ==
    /\ DrawMusic(0, MaxNotes)
    /\ data = <<>>
    /\ new_data = <<>>
    /\ step_distance = 1
    /\ pos = 0
    /\ pc = "build"
    /\ answers = {}
    /\ SubIdle
    /\ DefaultIdle
    /\ ScoreIdle
    /\ CatalogIdle
    /\ WeightIdle

\* for i, (_, note) in enumerate(music.iterrows())
Build ==
    /\ pc = "build"
    /\ pos < Len(music)
    /\ LET r == BuildOne(data, pos) IN
         IF r.ok
         THEN /\ data' = r.data
              /\ pos' = pos + 1
              /\ pc' = pc
         ELSE /\ pc' = "assert"
              /\ UNCHANGED <<data, pos>>
    /\ UNCHANGED <<music, new_data, step_distance, answers>>
    /\ UNCHANGED notCluster

BuildEnd ==
    /\ pc = "build"
    /\ pos = Len(music)
    /\ pc' = "while"
    /\ UNCHANGED <<music, data, new_data, step_distance, pos, answers>>
    /\ UNCHANGED notCluster

\* while step_distance <= BEAT_LCM: new_data = []
WhileEnter ==
    /\ pc = "while"
    /\ step_distance <= BEAT_LCM
    /\ new_data' = <<>>
    /\ pos' = 0
    /\ pc' = "for"
    /\ UNCHANGED <<music, data, step_distance, answers>>
    /\ UNCHANGED notCluster

\* return data
Return ==
    /\ pc = "while"
    /\ step_distance > BEAT_LCM
    /\ pc' = "done"
    /\ UNCHANGED <<music, data, new_data, step_distance, pos, answers>>
    /\ UNCHANGED notCluster

Part == data[pos + 1]
Lmi == LastMeaningfulIdx(new_data)
Lmp == new_data[Lmi]

DoAppend ==
    /\ new_data' = Append(new_data, Part)
    /\ pos' = pos + 1
    /\ pc' = pc

DoMerge ==
    LET r == Merge(new_data, Lmi, Part) IN
    IF r.ok
    THEN /\ new_data' = r.new_data
         /\ pos' = pos + 1
         /\ pc' = pc
    ELSE /\ pc' = "assert"
         /\ UNCHANGED <<new_data, pos>>

\* a rest, or no earlier non-rest part: new_data.append(part); continue
ForSkip ==
    /\ pc = "for"
    /\ pos < Len(data)
    /\ NoPartner(new_data, Part)
    /\ DoAppend
    /\ UNCHANGED <<music, data, step_distance, answers>>
    /\ UNCHANGED notCluster

\* part - last_meaningful_part raises
ForRaise ==
    /\ pc = "for"
    /\ pos < Len(data)
    /\ ~NoPartner(new_data, Part)
    /\ Sub(Part, Lmp).raised
    /\ pc' = "raised"
    /\ UNCHANGED <<music, data, new_data, step_distance, pos, answers>>
    /\ UNCHANGED notCluster

\* the distance exceeds the pass's threshold
ForFar ==
    /\ pc = "for"
    /\ pos < Len(data)
    /\ ~NoPartner(new_data, Part)
    /\ ~Sub(Part, Lmp).raised
    /\ Sub(Part, Lmp).value > step_distance
    /\ DoAppend
    /\ UNCHANGED <<music, data, step_distance, answers>>
    /\ UNCHANGED notCluster

\* within the threshold and overlapping in time: merged, can_merge is not called
ForOverlap ==
    /\ pc = "for"
    /\ pos < Len(data)
    /\ ~NoPartner(new_data, Part)
    /\ ~Sub(Part, Lmp).raised
    /\ Sub(Part, Lmp).value <= step_distance
    /\ Overlaps(Lmp, Part)
    /\ IF ShouldMerge(Lmp, Part, FALSE) THEN DoMerge ELSE DoAppend
    /\ UNCHANGED <<music, data, step_distance, answers>>
    /\ UNCHANGED notCluster

\* within the threshold, not overlapping: can_merge decides
ForAsk ==
    /\ pc = "for"
    /\ pos < Len(data)
    /\ ~NoPartner(new_data, Part)
    /\ ~Sub(Part, Lmp).raised
    /\ Sub(Part, Lmp).value <= step_distance
    /\ ~Overlaps(Lmp, Part)
    /\ \E answer \in BOOLEAN :
         /\ answers' = answers \cup {answer}
         /\ IF ShouldMerge(Lmp, Part, answer) THEN DoMerge ELSE DoAppend
    /\ UNCHANGED <<music, data, step_distance>>
    /\ UNCHANGED notCluster

\* data = new_data; step_distance *= 2
ForEnd ==
    /\ pc = "for"
    /\ pos = Len(data)
    /\ data' = new_data
    /\ step_distance' = step_distance * 2
    /\ pc' = "while"
    /\ UNCHANGED <<music, new_data, pos, answers>>
    /\ UNCHANGED notCluster

Next ==
    \/ Build
    \/ BuildEnd
    \/ WhileEnter
    \/ Return
    \/ ForSkip
    \/ ForRaise
    \/ ForFar
    \/ ForOverlap
    \/ ForAsk
    \/ ForEnd

Spec == Init /\ [][Next]_vars

-----------------------------------------------------------------------------
(* Claims about cluster *)

RECURSIVE SumLength(_)
SumLength(d) == IF d = <<>> THEN 0 ELSE Last(d).length + SumLength(Front(d))

Partitions(d, n) ==
    /\ d # <<>> => d[1].start_idx = 0
    /\ \A k \in 2..Len(d) : d[k].start_idx = d[k - 1].start_idx + d[k - 1].length
    /\ \A k \in 1..Len(d) : d[k].length >= 1
    /\ SumLength(d) = n

Sorted == \A k \in 1..(Len(music) - 1) : music[k].start_time <= music[k + 1].start_time

\* the position in d of the Part holding note i (0-based)
PartOf(d, i) == CHOOSE k \in 1..Len(d) : d[k].start_idx <= i /\ i < end_idx(d[k])

\* C1: after phase 0, after every pass and on return the working list exactly
\* partitions the notes (first Part at index 0, each Part starting where the
\* previous one ends, lengths summing to the number of notes), and no assertion
\* of Part.__add__ ever fails.
C1_Partition ==
    /\ pc # "assert"
    /\ pc \in {"while", "done"} => Partitions(data, Len(music))

C1_Witness ==
    /\ pc = "done"
    /\ Len(data) >= 2
    /\ \E k \in 1..Len(data) :
         /\ data[k].length >= 3
         /\ ~is_rest(data[k])
         /\ music[data[k].start_idx + 2].step_id = REST
         /\ music[data[k].start_idx + 2].start_time # first_start_time(data[k])

\* no note ends after the start of a later note of the sequence, notes that
\* start at the same tick apart
NoTimeOverlap ==
    \A i, j \in 1..Len(music) :
        i < j => \/ music[i].start_time = music[j].start_time
                 \/ music[i].end_time <= music[j].start_time

\* C4, as claimed: when can_merge has only ever returned false, the output is
\* the phase-0 segmentation, for every input (the time-sorted inputs here).
C4_Original ==
    (pc = "done" /\ answers \subseteq {FALSE} /\ Sorted) => data = Phase0(Len(music))

\* C4, amended: when can_merge has only ever returned false and no two notes
\* overlap in time, the output is the phase-0 segmentation.
C4_NeverMerges ==
    (pc = "done" /\ answers \subseteq {FALSE} /\ NoTimeOverlap)
        => data = Phase0(Len(music))

C4_Witness ==
    /\ pc = "done"
    /\ answers = {FALSE}
    /\ NoTimeOverlap
    /\ Len(data) >= 3
    /\ \E k \in 1..Len(data) : data[k].length >= 2

BothSound(i) == music[i].step_id # REST /\ music[i + 1].step_id # REST

NoAdjacentRests(d) == \A k \in 1..(Len(d) - 1) : ~(is_rest(d[k]) /\ is_rest(d[k + 1]))

\* the loop of a pass is at a Part for which a merge is attempted
Attempting == pc = "for" /\ pos < Len(data) /\ ~NoPartner(new_data, Part)

\* a step of the pass that merged the current Part into new_data
MergeStep ==
    /\ Attempting
    /\ pc' = "for"
    /\ pos' = pos + 1
    /\ Len(new_data') <= Len(new_data)

\* what a merge step does to new_data: the last meaningful Part grows to the
\* end of the current Part, and the one Part dropped, if any, is a rest Part
\* that stood between the two
MergeAbsorbs ==
    LET merged == Last(new_data') IN
    /\ Len(new_data) - Len(new_data') \in {0, 1}
    /\ Len(new_data') = Lmi
    /\ merged.start_idx = Lmp.start_idx
    /\ end_idx(merged) = end_idx(Part)
    /\ \A k \in 1..(Lmi - 1) : new_data'[k] = new_data[k]
    /\ Len(new_data') < Len(new_data) =>
         /\ is_rest(Last(new_data))
         /\ end_idx(Lmp) = Last(new_data).start_idx
         /\ end_idx(Last(new_data)) = Part.start_idx

C11_State ==
    /\ pc \in {"build", "while", "for", "done"} => NoAdjacentRests(data)
    /\ pc = "for" => NoAdjacentRests(new_data)
    /\ Attempting =>
         /\ Lmi \in 1..Len(new_data)
         /\ Lmi >= Len(new_data) - 1
         /\ ~is_rest(Lmp)

\* C11: whenever a pass attempts a merge the last meaningful Part exists and
\* is not a rest Part; neither data nor new_data ever holds two adjacent rest
\* Parts; and a merge drops at most one Part from new_data, a rest Part lying
\* between the two merged Parts, whose notes end up inside the merged Part.
C11_LastMeaningful == [](C11_State) /\ [][MergeStep => MergeAbsorbs]_vars

C11_Witness ==
    /\ pc = "for"
    /\ pos >= 3
    /\ is_rest(data[pos - 1])
    /\ ~is_rest(data[pos])
    /\ ~is_rest(Last(new_data))
    /\ Last(new_data).start_idx < data[pos - 1].start_idx
    /\ end_idx(Last(new_data)) = end_idx(data[pos])

\* every note of the Part is a rest
PureRest(p) == \A i \in p.start_idx..(end_idx(p) - 1) : music[i + 1].step_id = REST

\* P = d[k] and Q = d[m] overlap in time within the largest threshold
OverlapWithin(d, k, m) ==
    /\ first_start_time(d[m]) - last_start_time(d[k]) <= BEAT_LCM
    /\ d[k].end_time > first_start_time(d[m])

\* Q follows P directly, or after exactly one rest Part
Neighbours(d, k, m) == m = k + 1 \/ (m = k + 2 /\ is_rest(d[k + 1]))

-----------------------------------------------------------------------------
(* cluster.py, main block: cluster(music, can_merge) with the default can_merge *)

\* config.py:61, the list as written
TOLERANCE_CLUSTER_STEPS == <<16, 15, 14, 13, 12, 11, 10, 9, 8, 7, 6, 5, 4, 3, 2, 1>>

CATEGORY_LEN == BEAT_LCM \div Len(TOLERANCE_CLUSTER_STEPS)

\* config.py:68, the list as rebound
TOLERANCE_CLUSTER_LENGTH ==
    [k \in 1..Len(TOLERANCE_CLUSTER_STEPS) |-> TOLERANCE_CLUSTER_STEPS[k] * CATEGORY_LEN]

\* the time signatures of the notes: 4/4 up to some note, 3/4 from there on
Meters == <<[beats |-> 4, beat_type |-> 4], [beats |-> 3, beat_type |-> 4]>>

MeterChanges(n) == {0, 1, n} \cap (0..n)

\* can_merge(part1, part2, step_distance, music) of the main block:
\* [outcome, part_distance], outcome one of "true", "false", "assert", "index";
\* part_distance is the set holding the distance, empty if none was computed
DefaultCanMerge(part1, part2) ==
    LET m1 == meter[part1.start_idx + 1]
        m2 == meter[part2.start_idx + 1]
        d == Sub(part2, part1).value
        merged_length == last_start_time(part2) - first_start_time(part1)
        category == d \div CATEGORY_LEN
    IN  IF m1 # m2 THEN [outcome |-> "false", part_distance |-> {}]
        ELSE IF ~(0 <= d /\ d <= BEAT_LCM) THEN [outcome |-> "assert", part_distance |-> {d}]
        ELSE IF category >= Len(TOLERANCE_CLUSTER_LENGTH)
        THEN [outcome |-> "index", part_distance |-> {d}]
        ELSE IF merged_length * m1.beat_type
                    <= TOLERANCE_CLUSTER_LENGTH[category + 1] * m1.beats
        THEN [outcome |-> "true", part_distance |-> {d}]
        ELSE [outcome |-> "false", part_distance |-> {d}]

InitDefault ==
    /\ DrawMusic(0, MaxNotes)
    /\ \E change \in MeterChanges(Len(music)) :
         meter = [k \in 1..Len(music) |-> IF k <= change THEN Meters[1] ELSE Meters[2]]
    /\ part_distances = {}
    /\ data = <<>>
    /\ new_data = <<>>
    /\ step_distance = 1
    /\ pos = 0
    /\ pc = "build"
    /\ answers = {}
    /\ SubIdle
    /\ ScoreIdle
    /\ CatalogIdle
    /\ WeightIdle

Asking ==
    /\ pc = "for"
    /\ pos < Len(data)
    /\ ~NoPartner(new_data, Part)
    /\ ~Sub(Part, Lmp).raised
    /\ Sub(Part, Lmp).value <= step_distance
    /\ ~Overlaps(Lmp, Part)

\* within the threshold, not overlapping: the default can_merge decides
ForDefault ==
    /\ Asking
    /\ LET r == DefaultCanMerge(Lmp, Part) IN
         /\ r.outcome \in {"true", "false"}
         /\ part_distances' = part_distances \cup r.part_distance
         /\ answers' = answers \cup {r.outcome = "true"}
         /\ IF ShouldMerge(Lmp, Part, r.outcome = "true") THEN DoMerge ELSE DoAppend
    /\ UNCHANGED <<music, data, step_distance, meter>>
    /\ UNCHANGED <<subVars, catalogVars, weightVars, scoreVars>>

\* the default can_merge raises: AssertionError or IndexError
ForDefaultRaise ==
    /\ Asking
    /\ LET r == DefaultCanMerge(Lmp, Part) IN
         /\ r.outcome \in {"assert", "index"}
         /\ part_distances' = part_distances \cup r.part_distance
         /\ pc' = r.outcome
    /\ UNCHANGED <<music, data, new_data, step_distance, pos, answers, meter>>
    /\ UNCHANGED <<subVars, catalogVars, weightVars, scoreVars>>

NextDefault ==
    \/ Build
    \/ BuildEnd
    \/ WhileEnter
    \/ Return
    \/ ForSkip
    \/ ForRaise
    \/ ForFar
    \/ ForOverlap
    \/ ForDefault
    \/ ForDefaultRaise
    \/ ForEnd

SpecDefault == InitDefault /\ [][NextDefault]_vars

\* C13: for a time-sorted note sequence no call of the default can_merge
\* raises: the distance it computes is between 0 and BEAT_LCM, and
\* distance // CATEGORY_LEN is a valid index of TOLERANCE_CLUSTER_LENGTH.
C13_DefaultCompletes ==
    Sorted =>
        /\ pc \notin {"assert", "index"}
        /\ \A d \in part_distances :
             /\ 0 <= d /\ d <= BEAT_LCM
             /\ d \div CATEGORY_LEN < Len(TOLERANCE_CLUSTER_LENGTH)

-----------------------------------------------------------------------------
(* Part.__sub__ on any two Parts of one note table *)

\* the Part of notes i .. i + n - 1, as Part(music, i, 1, end_time) and
\* Part.__add__ build it
RECURSIVE MakePart(_, _)
MakePart(i, n) ==
    IF n = 1 THEN NewPart(i) ELSE Add(MakePart(i, n - 1), NewPart(i + n - 1))

InitSub ==
    /\ DrawMusic(2, MaxSubNotes)
    /\ pc = "parts"
    /\ ClusterIdle
    /\ SubIdle
    /\ DefaultIdle
    /\ ScoreIdle
    /\ CatalogIdle
    /\ WeightIdle

\* self - other
SubCall ==
    /\ pc = "parts"
    /\ \E i \in 0..(Len(music) - 1), j \in 0..(Len(music) - 1) :
       \E n \in 1..(Len(music) - i), m \in 1..(Len(music) - j) :
         /\ i + n <= j \/ j + m <= i
         /\ self_part' = MakePart(i, n)
         /\ other_part' = MakePart(j, m)
         /\ distance' = Sub(MakePart(i, n), MakePart(j, m))
    /\ pc' = IF distance'.raised THEN "raised" ELSE "done"
    /\ UNCHANGED <<music, notSub>>

NextSub == SubCall

SpecSub == InitSub /\ [][NextSub]_vars

\* the time span of a Part: from its first start tick to its end time
SpansOverlap(p, q) ==
    /\ first_start_time(p) < q.end_time
    /\ first_start_time(q) < p.end_time

\* the start ticks of the two Parts interleave
Interleaved(p, q) ==
    /\ first_start_time(p) < last_start_time(q)
    /\ last_start_time(p) > first_start_time(q)

Called == pc \in {"raised", "done"} /\ distance # None

\* C2, as claimed: the distance of two Parts whose time spans overlap is never
\* a number: the call raises (here for two non-rest Parts of a time-sorted
\* table that start at different ticks).
C2_Original ==
    ( /\ Called
      /\ Sorted
      /\ ~is_rest(self_part) /\ ~is_rest(other_part)
      /\ first_start_time(self_part) # first_start_time(other_part)
      /\ SpansOverlap(self_part, other_part) )
    => distance.raised

\* C2, amended: the call raises exactly when the start ticks of the two Parts
\* interleave; for two Parts of a time-sorted table it never raises, also when
\* their time spans overlap, and for the later Part minus the earlier one it
\* returns the later Part's first start tick minus the earlier Part's last
\* start tick, which is not negative.
C2_Distance ==
    Called =>
        /\ distance.raised <=> Interleaved(self_part, other_part)
        /\ Sorted =>
             /\ ~distance.raised
             /\ end_idx(other_part) <= self_part.start_idx =>
                  /\ distance.value =
                       first_start_time(self_part) - last_start_time(other_part)
                  /\ distance.value >= 0

C2_Witness ==
    /\ Called
    /\ Sorted
    /\ SpansOverlap(self_part, other_part)
    /\ end_idx(other_part) <= self_part.start_idx
    /\ self_part.length >= 2
    /\ first_start_time(self_part) = last_start_time(other_part)
    /\ ~distance.raised

-----------------------------------------------------------------------------
(* config.py: CHORDS; chord.py: Chord *)

CHORDS ==
    << [name |-> "maj3", order |-> <<0, 4, 7>>],
       [name |-> "min3", order |-> <<0, 3, 7>>],
       [name |-> "aug3", order |-> <<0, 4, 8>>],
       [name |-> "dim3", order |-> <<0, 3, 6>>] >>

MaxChords == 2
MaxInterval == 8

\* other chord tables: up to MaxChords triads <<0, a, b>>, 0 < a < b <= MaxInterval
Names == <<"q1", "q2", "q3", "q4">>

RECURSIVE MinOf(_)
MinOf(o) ==
    IF Len(o) = 1 THEN o[1]
    ELSE LET m == MinOf(Tail(o)) IN IF o[1] <= m THEN o[1] ELSE m

\* sorted(order)
RECURSIVE Insert(_, _)
Insert(x, o) ==
    IF o = <<>> THEN <<x>>
    ELSE IF x <= o[1] THEN <<x>> \o o
    ELSE <<o[1]>> \o Insert(x, Tail(o))

RECURSIVE SortedOrder(_)
SortedOrder(o) == IF o = <<>> THEN <<>> ELSE Insert(o[1], SortedOrder(Tail(o)))

\* ','.join([str(o) for o in sorted(order)])
Key(o) == SortedOrder(o)

\* Chord.normalize_order
normalize_order(o) == [k \in 1..Len(o) |-> o[k] - MinOf(o)]

\* Chord.transposition
transposition(o) == normalize_order(Tail(o) \o <<o[1] + 12>>)

DuplicatedNever(key, ds) == FALSE

\* key in Chord.deduplicate_set
Duplicated(key, ds) == key \in ds

\* one iteration of "for idx in range(len(order))"
ChordIter(ds, tr, o, i) ==
    IF Duplicated(Key(o), ds)
    THEN [deduplicate_set |-> ds, trans |-> tr, order |-> o]
    ELSE [deduplicate_set |-> ds \cup {Key(o)},
          trans |-> Append(tr, [idx |-> i, order |-> o]),
          order |-> transposition(o)]

\* Chord.__init__ from iteration i on
RECURSIVE ChordLoop(_, _, _, _, _)
ChordLoop(ds, tr, o, i, n) ==
    IF i = n THEN [deduplicate_set |-> ds, trans |-> tr]
    ELSE LET r == ChordIter(ds, tr, o, i)
         IN  ChordLoop(r.deduplicate_set, r.trans, r.order, i + 1, n)

\* Chord.init from the c-th item on
RECURSIVE InitLoop(_, _, _, _)
InitLoop(table, c, ds, acc) ==
    IF c > Len(table) THEN acc
    ELSE LET o == normalize_order(table[c].order)
             r == ChordLoop(ds, <<>>, o, 0, Len(o))
         IN  InitLoop(table, c + 1, r.deduplicate_set,
                      Append(acc, [name |-> table[c].name, trans |-> r.trans]))

\* Chord.chords once chord.py is imported
Catalog == InitLoop(CHORDS, 1, {}, <<>>)

InitCatalog ==
    /\ \/ chord_table = CHORDS
       \/ \E n \in 1..MaxChords : \E f \in [1..n -> (1..MaxInterval) \X (1..MaxInterval)] :
            /\ \A k \in 1..n : f[k][1] < f[k][2]
            /\ chord_table = [k \in 1..n |->
                                [name |-> Names[k], order |-> <<0, f[k][1], f[k][2]>>]]
    /\ chord_i = 1
    /\ deduplicate_set = {}
    /\ chords = <<>>
    /\ trans = <<>>
    /\ order = <<>>
    /\ idx = 0
    /\ pc = "init"
    /\ music = None
    /\ ClusterIdle
    /\ SubIdle
    /\ DefaultIdle
    /\ ScoreIdle
    /\ WeightIdle

\* Chord.chords[name] = Chord(name, order): __init__ up to its loop
ChordNew ==
    /\ pc = "init"
    /\ chord_i <= Len(chord_table)
    /\ trans' = <<>>
    /\ order' = normalize_order(chord_table[chord_i].order)
    /\ idx' = 0
    /\ pc' = "chord"
    /\ UNCHANGED <<chord_table, chord_i, deduplicate_set, chords>>
    /\ UNCHANGED notCatalog

\* the key is registered already: continue
ChordSkip ==
    /\ pc = "chord"
    /\ idx < Len(order)
    /\ Duplicated(Key(order), deduplicate_set)
    /\ LET r == ChordIter(deduplicate_set, trans, order, idx) IN
         /\ deduplicate_set' = r.deduplicate_set
         /\ trans' = r.trans
         /\ order' = r.order
    /\ idx' = idx + 1
    /\ pc' = pc
    /\ UNCHANGED <<chord_table, chord_i, chords>>
    /\ UNCHANGED notCatalog

\* a new key: register it, append the Transposition, rotate the order
ChordEmit ==
    /\ pc = "chord"
    /\ idx < Len(order)
    /\ ~Duplicated(Key(order), deduplicate_set)
    /\ LET r == ChordIter(deduplicate_set, trans, order, idx) IN
         /\ deduplicate_set' = r.deduplicate_set
         /\ trans' = r.trans
         /\ order' = r.order
    /\ idx' = idx + 1
    /\ pc' = pc
    /\ UNCHANGED <<chord_table, chord_i, chords>>
    /\ UNCHANGED notCatalog

\* __init__ returns: Chord.chords[name] = the chord
ChordDone ==
    /\ pc = "chord"
    /\ idx = Len(order)
    /\ chords' = Append(chords, [name |-> chord_table[chord_i].name, trans |-> trans])
    /\ chord_i' = chord_i + 1
    /\ pc' = "init"
    /\ UNCHANGED <<chord_table, deduplicate_set, trans, order, idx>>
    /\ UNCHANGED notCatalog

\* Chord.init returns
InitDone ==
    /\ pc = "init"
    /\ chord_i > Len(chord_table)
    /\ pc' = "done"
    /\ UNCHANGED catalogVars
    /\ UNCHANGED notCatalog

NextCatalog ==
    \/ ChordNew
    \/ ChordSkip
    \/ ChordEmit
    \/ ChordDone
    \/ InitDone

SpecCatalog == InitCatalog /\ [][NextCatalog]_vars

\* the k-th rotation of an order
RECURSIVE Rotation(_, _)
Rotation(o, k) == IF k = 0 THEN o ELSE transposition(Rotation(o, k - 1))

\* a rotation of the c-th quality has the interval set of an earlier rotation
\* of it, or of a Transposition of an earlier quality
Collapses(c) ==
    LET o == normalize_order(chord_table[c].order) IN
    \E k \in 0..(Len(o) - 1) :
        \/ \E j \in 0..(k - 1) : Key(Rotation(o, j)) = Key(Rotation(o, k))
        \/ \E b \in 1..(c - 1) : \E t \in 1..Len(chords[b].trans) :
             Key(chords[b].trans[t].order) = Key(Rotation(o, k))

CountOf(name) ==
    LET c == CHOOSE x \in 1..Len(chords) : chords[x].name = name
    IN  Len(chords[c].trans)

\* C7: once the catalog is built every quality has at most as many
\* Transpositions as tones, and strictly fewer when one of its rotations has an
\* interval set registered before; no two Transpositions of the catalog have
\* the same interval set; and for config.CHORDS aug3 has one Transposition,
\* maj3, min3 and dim3 three each.
C7_Transpositions ==
    pc = "done" =>
        /\ Len(chords) = Len(chord_table)
        /\ \A c \in 1..Len(chords) :
             /\ Len(chords[c].trans) <= Len(chord_table[c].order)
             /\ Collapses(c) => Len(chords[c].trans) < Len(chord_table[c].order)
        /\ \A c, d \in 1..Len(chords) :
             \A t \in 1..Len(chords[c].trans), u \in 1..Len(chords[d].trans) :
               Key(chords[c].trans[t].order) = Key(chords[d].trans[u].order)
                   => (c = d /\ t = u)
        /\ chord_table = CHORDS =>
             /\ CountOf("aug3") = 1
             /\ CountOf("maj3") = 3
             /\ CountOf("min3") = 3
             /\ CountOf("dim3") = 3

C7_Witness ==
    /\ pc = "done"
    /\ chord_table = CHORDS
    /\ chords = Catalog
    /\ Collapses(3)

-----------------------------------------------------------------------------
(* utils.py: combine_weight; config.py: WEIGHT; chord.py: Measure, get_weight  *)
(* A list of weights is [num, den]: the floats num[k] / den, kept exact.       *)

RECURSIVE SumSeq(_)
SumSeq(q) == IF q = <<>> THEN 0 ELSE q[1] + SumSeq(Tail(q))

\* [a * b for (a, b) in product(x, y)]
Products(x, y) ==
    [k \in 1..(Len(x) * Len(y)) |->
        x[((k - 1) \div Len(y)) + 1] * y[((k - 1) % Len(y)) + 1]]

\* utils.combine_weight, of two lists
combine_weight(x, y) == [num |-> Products(x.num, y.num), den |-> x.den * y.den]

_WEIGHT_1 == [num |-> <<10>>, den |-> 10]
_WEIGHT_2 == [num |-> <<6, 4>>, den |-> 10]
_WEIGHT_3 == [num |-> <<45, 30, 25>>, den |-> 100]
_WEIGHT_4 == [num |-> <<4, 2, 3, 1>>, den |-> 10]
_WEIGHT_6 == combine_weight(_WEIGHT_2, _WEIGHT_3)
_WEIGHT_8 == combine_weight(_WEIGHT_4, _WEIGHT_2)

\* config.WEIGHT in the order of its items; the key is f'{beats}/{beat_type}'
WEIGHT ==
    << [beats |-> 1, beat_type |-> 4, weight |-> _WEIGHT_1],
       [beats |-> 4, beat_type |-> 4, weight |-> _WEIGHT_4],
       [beats |-> 3, beat_type |-> 4, weight |-> _WEIGHT_3],
       [beats |-> 2, beat_type |-> 4, weight |-> _WEIGHT_2],
       [beats |-> 3, beat_type |-> 8, weight |-> _WEIGHT_3],
       [beats |-> 6, beat_type |-> 8, weight |-> _WEIGHT_6] >>

\* config.WEIGHT_B_INNER
WEIGHT_B_INNER(beat_type) == IF beat_type = 4 THEN _WEIGHT_8 ELSE _WEIGHT_4

MeasureWeightUnscaled(original_weight, b_inner) ==
    [num |-> [k \in 1..(Len(original_weight.num) * Len(b_inner.num)) |->
                original_weight.num[((k - 1) \div Len(b_inner.num)) + 1]],
     den |-> original_weight.den]

\* [w * b for w in original_weight for b in b_inner]
MeasureWeight(original_weight, b_inner) ==
    [num |-> Products(original_weight.num, b_inner.num),
     den |-> original_weight.den * b_inner.den]

\* the two assertions of Measure.init
MeasureOk(e) ==
    /\ e.beats = Len(e.weight.num)
    /\ e.beat_type * Len(WEIGHT_B_INNER(e.beat_type).num) = BEAT_LCM

\* Measure(beats, beat_type, weight)
Measure(beats, beat_type, weight) ==
    [beats |-> beats,
     beat_type |-> beat_type,
     pb16 |-> BEAT_LCM \div beat_type,
     length |-> beats * (BEAT_LCM \div beat_type),
     weight |-> weight]

\* Measure.measures once chord.py is imported
RECURSIVE MeasuresFrom(_)
MeasuresFrom(k) ==
    IF k = 0 THEN <<>>
    ELSE Append(MeasuresFrom(k - 1),
                Measure(WEIGHT[k].beats, WEIGHT[k].beat_type,
                        MeasureWeight(WEIGHT[k].weight,
                                      WEIGHT_B_INNER(WEIGHT[k].beat_type))))

MaxMeasureNotes == 3

Pitches == {REST, 1, 2}

\* the notes of a measure part start at the measure's start or its middle and
\* last half of it or all of it, inside the measure
NoteKinds(m) ==
    LET h == m.length \div 2 IN
    {n \in [step_id : Pitches, start_time : {0, h}, duration : {h, 2 * h}] :
        n.start_time + n.duration <= m.length}

RECURSIVE Lcm(_)
Lcm(n) ==
    IF n = 1 THEN 1
    ELSE LET l == Lcm(n - 1)
             g == CHOOSE d \in 1..n : /\ n % d = 0 /\ l % d = 0
                                      /\ \A e \in 1..n : (n % e = 0 /\ l % e = 0) => e <= d
         IN  (l \div g) * n

\* a share weight / len(used) is kept as the integer weight * ShareScale / len(used)
ShareScale == Lcm(MaxMeasureNotes)

SoundsAlways(note) == TRUE

\* note.step_id != -1
Sounds(note) == note.step_id # REST

\* used_weight after the loop over the notes from the k-th on
RECURSIVE UsedFrom(_, _, _)
UsedFrom(notes, k, used) ==
    IF k > Len(notes) THEN used
    ELSE LET note == notes[k] IN
         UsedFrom(notes, k + 1,
                  IF Sounds(note)
                  THEN [i \in 1..Len(used) |->
                          IF note.start_time <= i - 1 /\ i - 1 < note.start_time + note.duration
                          THEN Append(used[i], note.step_id)
                          ELSE used[i]]
                  ELSE used)

\* note_weight[step] += weight_piece, on a defaultdict(float)
AddTo(nw, step, piece) ==
    IF step \in DOMAIN nw THEN [nw EXCEPT ![step] = @ + piece]
    ELSE [x \in (DOMAIN nw) \cup {step} |-> IF x = step THEN piece ELSE nw[x]]

RECURSIVE AddAll(_, _, _)
AddAll(nw, used, piece) ==
    IF used = <<>> THEN nw ELSE AddAll(AddTo(nw, used[1], piece), Tail(used), piece)

EmptyProfile == [x \in {} |-> 0]

InitWeight ==
    /\ measures = <<>>
    /\ measure_part = None
    /\ used_weight = None
    /\ note_weight = None
    /\ tick = 0
    /\ pc = "init"
    /\ music = None
    /\ ClusterIdle
    /\ SubIdle
    /\ DefaultIdle
    /\ ScoreIdle
    /\ CatalogIdle

\* one iteration of Measure.init
MeasureNew ==
    /\ pc = "init"
    /\ Len(measures) < Len(WEIGHT)
    /\ LET e == WEIGHT[Len(measures) + 1] IN
         IF MeasureOk(e)
         THEN /\ measures' = Append(measures,
                     Measure(e.beats, e.beat_type,
                             MeasureWeight(e.weight, WEIGHT_B_INNER(e.beat_type))))
              /\ pc' = pc
         ELSE /\ pc' = "assert"
              /\ UNCHANGED measures
    /\ UNCHANGED <<measure_part, used_weight, note_weight, tick>>
    /\ UNCHANGED notWeight

\* get_weight(measure_part), up to the loop over zip(measure_weight, used_weight)
GetWeight ==
    /\ pc = "init"
    /\ Len(measures) = Len(WEIGHT)
    /\ \E k \in 1..Len(measures) : \E n \in 0..MaxMeasureNotes :
       \E notes \in [1..n -> NoteKinds(measures[k])] :
         /\ measure_part' = [measure |-> measures[k], notes |-> notes]
         /\ used_weight' = UsedFrom(notes, 1, [i \in 1..Len(measures[k].weight.num) |-> <<>>])
    /\ note_weight' = EmptyProfile
    /\ tick' = 0
    /\ pc' = "zip"
    /\ UNCHANGED measures
    /\ UNCHANGED notWeight

\* a tick nothing sounds at
TickSilent ==
    /\ pc = "zip"
    /\ tick < Len(used_weight)
    /\ used_weight[tick + 1] = <<>>
    /\ tick' = tick + 1
    /\ pc' = pc
    /\ UNCHANGED <<measures, measure_part, used_weight, note_weight>>
    /\ UNCHANGED notWeight

\* weight_piece = weight / len(used); note_weight[step] += weight_piece
TickShare ==
    /\ pc = "zip"
    /\ tick < Len(used_weight)
    /\ used_weight[tick + 1] # <<>>
    /\ LET used == used_weight[tick + 1]
           weight_piece == (measure_part.measure.weight.num[tick + 1] * ShareScale)
                               \div Len(used)
       IN  note_weight' = AddAll(note_weight, used, weight_piece)
    /\ tick' = tick + 1
    /\ pc' = pc
    /\ UNCHANGED <<measures, measure_part, used_weight>>
    /\ UNCHANGED notWeight

\* return dict(note_weight)
GetWeightReturn ==
    /\ pc = "zip"
    /\ tick = Len(used_weight)
    /\ pc' = "done"
    /\ UNCHANGED weightVars
    /\ UNCHANGED notWeight

NextWeight ==
    \/ MeasureNew
    \/ GetWeight
    \/ TickSilent
    \/ TickShare
    \/ GetWeightReturn

SpecWeight == InitWeight /\ [][NextWeight]_vars

\* C9: for every supported time signature the per-tick weight array has
\* beats * (BEAT_LCM / beat_type) entries, which is the Measure's length, and
\* its entries sum to the sum of the signature's per-beat profile; neither
\* assertion of Measure.init fails.
C9_MeasureWeights ==
    /\ pc # "assert"
    /\ \A k \in 1..Len(measures) :
         LET m == measures[k]
             e == WEIGHT[k]
         IN  /\ m.beats = e.beats /\ m.beat_type = e.beat_type
             /\ BEAT_LCM % e.beat_type = 0
             /\ Len(m.weight.num) = e.beats * (BEAT_LCM \div e.beat_type)
             /\ Len(m.weight.num) = m.length
             /\ SumSeq(m.weight.num) * e.weight.den = SumSeq(e.weight.num) * m.weight.den

C9_Witness ==
    /\ pc = "init"
    /\ Len(measures) = Len(WEIGHT)
    /\ Len(measures) = 6
    /\ measures = MeasuresFrom(Len(WEIGHT))

RECURSIVE SumOver(_, _)
SumOver(S, f) ==
    IF S = {} THEN 0
    ELSE LET x == CHOOSE y \in S : TRUE IN f[x] + SumOver(S \ {x}, f)

\* the pitches of the non-rest notes that cover tick t (0-based)
Sounding(t) ==
    {measure_part.notes[k].step_id : k \in
        {j \in 1..Len(measure_part.notes) :
            /\ measure_part.notes[j].step_id # REST
            /\ measure_part.notes[j].start_time <= t
            /\ t < measure_part.notes[j].start_time + measure_part.notes[j].duration}}

Ticks == 0..(Len(measure_part.measure.weight.num) - 1)
Covered == {t \in Ticks : Sounding(t) # {}}
TickWeight == [t \in Ticks |-> measure_part.measure.weight.num[t + 1]]

\* C8: the values of the returned profile sum to the weight of the ticks at
\* which a non-rest note sounds: to the sum of the measure's weight array when
\* every tick is covered, and to strictly less, by the weight of the silent
\* ticks, when some tick is not.
C8_Total ==
    pc = "done" =>
        LET total == SumOver(DOMAIN note_weight, note_weight)
            all == ShareScale * SumSeq(measure_part.measure.weight.num)
            silent == ShareScale * SumOver(Ticks \ Covered, TickWeight)
        IN  /\ Covered = Ticks => total = all
            /\ Covered # Ticks => (total < all /\ all - total = silent)

C8_Witness ==
    /\ pc = "done"
    /\ Covered # Ticks
    /\ Covered # {}
    /\ \E t \in Covered : Cardinality(Sounding(t)) = 2 /\ Len(used_weight[t + 1]) = 3

\* the weight credited to pitch p so far
Credit(p) == IF p \in DOMAIN note_weight THEN note_weight[p] ELSE 0

EvenShares(p) ==
    [t \in Ticks |->
        IF t < tick /\ p \in Sounding(t)
        THEN (TickWeight[t] * ShareScale) \div Cardinality(Sounding(t))
        ELSE 0]

\* C10: at every tick at which a non-rest note sounds each distinct sounding
\* pitch is credited the tick's weight divided by the number of distinct
\* sounding pitches, also when several notes of one pitch sound at the tick.
C10_EvenShare ==
    pc \in {"zip", "done"} =>
        \A p \in Pitches \ {REST} : Credit(p) = SumOver(Ticks, EvenShares(p))

-----------------------------------------------------------------------------
(* chord.py: sort_chord_transpositions(note_weight)                            *)
(* The profile's weights are integers here: sums and comparisons are exact.    *)

MaxStep == 7
MaxActive == 3
MaxWeight == 2

\* note_weight.get(step, 0.0)
Get(nw, step) == IF step \in DOMAIN nw THEN nw[step] ELSE 0

PyIndexForward(o, i) == IF i >= 0 THEN o[i + 1] ELSE o[1 - i]

\* o[i] of a Python list, i negative or not
PyIndex(o, i) == IF i >= 0 THEN o[i + 1] ELSE o[Len(o) + i + 1]

\* weight after "for step in trans.order: weight += note_weight.get(offset + step, 0.0)"
RECURSIVE WeightAt(_, _, _)
WeightAt(nw, offset, o) ==
    IF o = <<>> THEN 0 ELSE Get(nw, offset + o[1]) + WeightAt(nw, offset, Tail(o))

\* the item that to_be_merged holds under the key f'{root}|{weight}', if any
Merged(merged, root, weight) ==
    {k \in 1..Len(merged) : merged[k].root = root /\ merged[k].weight = weight}

\* the body of the loop over the offsets, for one offset
OffsetStep(merged, nw, name, tr, offset) ==
    LET weight == WeightAt(nw, offset, tr.order)
        root == offset + PyIndex(tr.order, -tr.idx)
        found == Merged(merged, root, weight)
    IN  IF weight > 0
        THEN IF found = {}
             THEN Append(merged, [chord |-> name, root |-> root, weight |-> weight,
                                  trans |-> <<tr.idx>>])
             ELSE LET k == CHOOSE j \in found : TRUE
                  IN  [merged EXCEPT ![k].trans = Append(@, tr.idx)]
        ELSE merged

\* for offset in range(offset, hi); the singleton sets bind the accumulator and
\* the counter to their values before the next iteration
RECURSIVE OffsetLoop(_, _, _, _, _, _)
OffsetLoop(merged, nw, name, tr, offset, hi) ==
    IF offset >= hi THEN merged
    ELSE CHOOSE r \in {OffsetLoop(m, nw, name, tr, o, hi) :
                           m \in {OffsetStep(merged, nw, name, tr, offset)},
                           o \in {offset + 1}} : TRUE

\* for trans in chord.trans, from the t-th on
RECURSIVE TransLoop(_, _, _, _, _, _)
TransLoop(merged, nw, chord, t, lo, hi) ==
    IF t > Len(chord.trans) THEN merged
    ELSE LET tr == chord.trans[t] IN
         CHOOSE r \in {TransLoop(m, nw, chord, t + 1, lo, hi) :
                           m \in {OffsetLoop(merged, nw, chord.name, tr,
                                             lo - PyIndex(tr.order, -1), hi + 1)}} : TRUE

RECURSIVE MaxOf(_)
MaxOf(S) ==
    LET x == CHOOSE y \in S : TRUE IN
    IF S = {x} THEN x
    ELSE LET m == MaxOf(S \ {x}) IN IF x >= m THEN x ELSE m

MinOfSet(S) == CHOOSE x \in S : \A y \in S : x <= y

WeightsOf(items) == {items[k].weight : k \in 1..Len(items)}

Weighs(items, w) == SelectSeq(items, LAMBDA item : item.weight = w)

RECURSIVE Ascending(_, _)
Ascending(items, W) ==
    IF W = {} THEN <<>>
    ELSE Weighs(items, MinOfSet(W)) \o Ascending(items, W \ {MinOfSet(W)})

SortAscending(items) == Ascending(items, WeightsOf(items))

\* the items in descending order of weight, items of one weight in their order
RECURSIVE Descending(_, _)
Descending(items, W) ==
    IF W = {} THEN <<>>
    ELSE Weighs(items, MaxOf(W)) \o Descending(items, W \ {MaxOf(W)})

\* result.sort(key=lambda item: item['weight'], reverse=True): a stable sort
SortByWeight(items) == Descending(items, WeightsOf(items))

InitScore ==
    /\ \E keys \in SUBSET (0..MaxStep) :
         /\ Cardinality(keys) <= MaxActive
         /\ \E nw \in [keys -> 1..MaxWeight] : note_weight = nw
    /\ measures = None
    /\ measure_part = None
    /\ used_weight = None
    /\ tick = 0
    /\ min_step = 0
    /\ max_step = 0
    /\ result = None
    /\ chord_k = 0
    /\ pc = "score"
    /\ music = None
    /\ ClusterIdle
    /\ SubIdle
    /\ DefaultIdle
    /\ CatalogIdle

\* min() of an empty sequence: ValueError
ScoreRaise ==
    /\ pc = "score"
    /\ DOMAIN note_weight = {}
    /\ pc' = "raised"
    /\ UNCHANGED scoreVars
    /\ UNCHANGED notScore

\* min_step, max_step, result = []
ScoreBegin ==
    /\ pc = "score"
    /\ DOMAIN note_weight # {}
    /\ min_step' = MinOfSet(DOMAIN note_weight)
    /\ max_step' = MaxOf(DOMAIN note_weight)
    /\ result' = <<>>
    /\ chord_k' = 1
    /\ pc' = "chords"
    /\ UNCHANGED notScore

\* one iteration of the loop over Chord.chords.items()
ScoreChord ==
    /\ pc = "chords"
    /\ chord_k <= Len(Catalog)
    /\ result' = result \o TransLoop(<<>>, note_weight, Catalog[chord_k], 1,
                                     min_step, max_step)
    /\ chord_k' = chord_k + 1
    /\ pc' = pc
    /\ UNCHANGED <<min_step, max_step>>
    /\ UNCHANGED notScore

\* result.sort(...); return result
ScoreReturn ==
    /\ pc = "chords"
    /\ chord_k > Len(Catalog)
    /\ result' = SortByWeight(result)
    /\ pc' = "done"
    /\ UNCHANGED <<min_step, max_step, chord_k>>
    /\ UNCHANGED notScore

NextScore ==
    \/ ScoreRaise
    \/ ScoreBegin
    \/ ScoreChord
    \/ ScoreReturn

SpecScore == InitScore /\ [][NextScore]_vars

\* C3: the scorer called with a profile that has no active pitch returns
\* an empty ranked list and raises no error.
C3_EmptyProfile ==
    (DOMAIN note_weight = {} /\ pc # "score") => (pc = "done" /\ result = <<>>)

EqualAt047 ==
    /\ DOMAIN note_weight = {0, 4, 7}
    /\ note_weight[0] = note_weight[4]
    /\ note_weight[4] = note_weight[7]

\* C6: for a profile with one positive weight at exactly the pitches 0, 4 and
\* 7 the first entry of the returned list is the major triad with root 0,
\* contributed by inversion index 0, and every other entry weighs strictly less.
C6_MajorFirst ==
    (pc = "done" /\ EqualAt047) =>
        /\ Len(result) >= 1
        /\ result[1].chord = "maj3"
        /\ result[1].root = 0
        /\ result[1].trans = <<0>>
        /\ result[1].weight = 3 * note_weight[0]
        /\ \A k \in 2..Len(result) : result[k].weight < result[1].weight

C6_Witness ==
    /\ pc = "done"
    /\ EqualAt047
    /\ note_weight[0] = MaxWeight
    /\ Len(result) > 1
    /\ result[1].chord = "maj3"

\* the pitch classes of the tones at base + o[k]
Classes(base, o) == {(base + o[k] + 120) % 12 : k \in 1..Len(o)}

ChordNamed(name) == CHOOSE k \in 1..Len(Catalog) : Catalog[k].name = name

\* the Transposition of the chord with inversion index i
TransOf(chord, i) ==
    chord.trans[CHOOSE t \in 1..Len(chord.trans) : chord.trans[t].idx = i]

\* the root-position intervals of the k-th quality
RootPosition(k) == normalize_order(CHORDS[k].order)

\* C14: for every entry of result and every inversion index idx in its trans
\* list, the inversion matched at offset = root - order[-idx], inside the
\* scanned range and with the entry's weight, and the pitches offset + s of
\* the inversion's intervals are, modulo 12, the pitches root + c of the
\* quality's root-position intervals.
C14_RootTone ==
    pc \in {"chords", "done"} =>
        \A n \in 1..Len(result) : \A t \in 1..Len(result[n].trans) :
            LET item == result[n]
                k == ChordNamed(item.chord)
                tr == TransOf(Catalog[k], item.trans[t])
                offset == item.root - PyIndex(tr.order, -tr.idx)
            IN  /\ \E u \in 1..Len(Catalog[k].trans) :
                      Catalog[k].trans[u].idx = item.trans[t]
                /\ min_step - Last(tr.order) <= offset /\ offset <= max_step
                /\ WeightAt(note_weight, offset, tr.order) = item.weight
                /\ Classes(offset, tr.order) = Classes(item.root, RootPosition(k))

C14_Witness ==
    /\ pc = "done"
    /\ \E n \in 1..Len(result) :
         /\ result[n].chord = "min3"
         /\ result[n].trans = <<1, 2>>
         /\ result[n].root > 0
         /\ result[n].weight > 1

====
